---- MODULE Spec2Model ----
(***************************************************************************)
(* Remote nested-ZIP extraction (main.py, zipHeaders.py).                  *)
(*                                                                         *)
(* Bytes are the integers 0..255; a buffer is a sequence of bytes.  Python *)
(* offsets are 0-based, sequences here are 1-based: the byte at Python     *)
(* offset i of buffer d is d[i + 1].                                       *)
(*                                                                         *)
(* Three specifications share the definitions of the parser:               *)
(*   Spec      main(url): the resolver, one action per range request       *)
(*   SpecEocd  find_eocd applied to arbitrary small buffers                *)
(*   SpecCD    parse_central_directory, one action per loop iteration      *)
(***************************************************************************)
EXTENDS Integers, Sequences, FiniteSets, TLC

Min2(a, b) == IF a < b THEN a ELSE b
Max2(a, b) == IF a > b THEN a ELSE b

\* Python's data[a:b] for 0 <= a: the bytes at offsets a .. b-1 that exist.
Slice(d, a, b) ==
    IF a >= Min2(b, Len(d)) THEN << >> ELSE SubSeq(d, a + 1, Min2(b, Len(d)))

\* struct "<H" and "<I": little-endian unsigned fields at offset i of d.
U16(d, i) == d[i + 1] + 256 * d[i + 2]
U32(d, i) == d[i + 1] + 256 * d[i + 2] + 65536 * d[i + 3] + 16777216 * d[i + 4]

\* A 32-bit CRC field is kept as <<high 16 bits, low 16 bits>>: the model
\* checker's integers are 32-bit signed and cannot hold 0xFFFFFFFF.
U32Halves(d, i) == << U16(d, i + 2), U16(d, i) >>

P16(v) == << v % 256, (v \div 256) % 256 >>
P32(v) == << v % 256, (v \div 256) % 256, (v \div 65536) % 256, (v \div 16777216) % 256 >>
P32Halves(h) == P16(h[2]) \o P16(h[1])

RECURSIVE Xor(_, _)
Xor(a, b) ==
    IF a = 0 THEN b
    ELSE IF b = 0 THEN a
    ELSE (((a % 2) + (b % 2)) % 2) + 2 * Xor(a \div 2, b \div 2)

\* One bit of the reflected CRC-32 (polynomial 0xEDB88320 = EDB8:8320).
CrcShift(c) ==
    LET hi == c[1] \div 2
        lo == (c[2] \div 2) + (c[1] % 2) * 32768
    IN  IF c[2] % 2 = 1 THEN << Xor(hi, 60856), Xor(lo, 33568) >> ELSE << hi, lo >>

CrcByte(c, b) ==
    CrcShift(CrcShift(CrcShift(CrcShift(CrcShift(CrcShift(CrcShift(CrcShift(
        << c[1], Xor(c[2], b) >>))))))))

RECURSIVE CrcRun(_, _, _)
CrcRun(c, d, i) == IF i > Len(d) THEN c ELSE CrcRun(CrcByte(c, d[i]), d, i + 1)

\* binascii.crc32(data) & 0xFFFFFFFF
Crc32(d) ==
    LET c == CrcRun(<< 65535, 65535 >>, d, 1)
    IN  << Xor(c[1], 65535), Xor(c[2], 65535) >>

(***************************************************************************)
(* Results of operations that may raise: Ok(v) or Raise(exception).        *)
(***************************************************************************)
Ok(v) == [ok |-> TRUE, val |-> v, err |-> ""]
Raise(e) == [ok |-> FALSE, val |-> << >>, err |-> e]

EOCD_SIGNATURE == << 80, 75, 5, 6 >>
EOCD_SIZE == 22
CENTRAL_DIRECTORY_HEADER_SIGNATURE == << 80, 75, 1, 2 >>
LFH_FIXED_SIZE == 30
CDFH_FIXED_SIZE == 46

SigAt(d, sig, i) == \A k \in 1..Len(sig) : d[i + k] = sig[k]

\* bytes.rfind(sig) over the start offsets lo..hi: the highest offsets are
\* searched first (by halves, which keeps the recursion shallow).
RECURSIVE RFindIn(_, _, _, _)
RFindIn(d, sig, lo, hi) ==
    IF lo > hi THEN -1
    ELSE IF lo = hi THEN (IF SigAt(d, sig, lo) THEN lo ELSE -1)
    ELSE LET mid == (lo + hi) \div 2
             upper == RFindIn(d, sig, mid + 1, hi)
         IN  IF upper # -1 THEN upper ELSE RFindIn(d, sig, lo, mid)

\* bytes.find(sig): the lowest offsets first.
RECURSIVE FindIn(_, _, _, _)
FindIn(d, sig, lo, hi) ==
    IF lo > hi THEN -1
    ELSE IF lo = hi THEN (IF SigAt(d, sig, lo) THEN lo ELSE -1)
    ELSE LET mid == (lo + hi) \div 2
             lower == FindIn(d, sig, lo, mid)
         IN  IF lower # -1 THEN lower ELSE FindIn(d, sig, mid + 1, hi)

FindFirst(data) == FindIn(data, EOCD_SIGNATURE, 0, Len(data) - Len(EOCD_SIGNATURE))

RFind(data) == RFindIn(data, EOCD_SIGNATURE, 0, Len(data) - Len(EOCD_SIGNATURE))

find_eocd(data) ==
    LET eocd_offset == RFind(data)
    IN  IF eocd_offset = -1 THEN Raise("EOCD signature not found.") ELSE Ok(eocd_offset)

parse_eocd(eocd_data) ==
    IF Len(eocd_data) < EOCD_SIZE THEN Raise("EOCD record is incomplete or corrupted.")
    ELSE IF Slice(eocd_data, 0, 4) # EOCD_SIGNATURE THEN Raise("EOCD signature mismatch.")
    ELSE Ok([total_entries |-> U16(eocd_data, 8),
             central_directory_size |-> U32(eocd_data, 12),
             central_directory_offset |-> U32(eocd_data, 16)])

\* bytes.decode("utf-8") to a sequence of code points, for the one- and
\* two-byte forms (the byte alphabets used here hold no lead byte >= 0xE0).
RECURSIVE Utf8From(_, _, _)
Utf8From(d, i, acc) ==
    IF i > Len(d) THEN Ok(acc)
    ELSE IF d[i] < 128 THEN Utf8From(d, i + 1, Append(acc, d[i]))
    ELSE IF d[i] >= 194 /\ d[i] <= 223 /\ i + 1 <= Len(d)
            /\ d[i + 1] >= 128 /\ d[i + 1] <= 191
         THEN Utf8From(d, i + 2, Append(acc, (d[i] - 192) * 64 + (d[i + 1] - 128)))
    ELSE Raise("UnicodeDecodeError")

Utf8Decode(d) == Utf8From(d, 1, << >>)

\* LocalFileHeader.unpack: struct "<4s5H3I2H" over data[:30].
LocalFileHeaderUnpack(data) ==
    IF Len(Slice(data, 0, LFH_FIXED_SIZE)) # LFH_FIXED_SIZE THEN Raise("struct.error")
    ELSE Ok([signature |-> Slice(data, 0, 4),
             compression_method |-> U16(data, 8),
             crc32 |-> U32Halves(data, 14),
             compressed_size |-> U32(data, 18),
             uncompressed_size |-> U32(data, 22),
             file_name_length |-> U16(data, 26),
             extra_field_length |-> U16(data, 28)])

\* CentralDirectoryFileHeader.unpack: struct "<4s6H3I5H2I" over data[:46],
\* with the variable fields as passed.
CentralDirectoryFileHeaderUnpack(data, file_name, extra_field, file_comment) ==
    IF Len(Slice(data, 0, CDFH_FIXED_SIZE)) # CDFH_FIXED_SIZE THEN Raise("struct.error")
    ELSE Ok([signature |-> Slice(data, 0, 4),
             compression_method |-> U16(data, 10),
             crc32 |-> U32Halves(data, 16),
             compressed_size |-> U32(data, 20),
             uncompressed_size |-> U32(data, 24),
             file_name_length |-> U16(data, 28),
             extra_field_length |-> U16(data, 30),
             file_comment_length |-> U16(data, 32),
             offset |-> U32(data, 42),
             file_name |-> file_name,
             extra_field |-> extra_field,
             file_comment |-> file_comment])

\* The advance without the comment's length.
NextOffsetWithoutComment(offset, e) ==
    offset + CDFH_FIXED_SIZE + e.file_name_length + e.extra_field_length

\* The offset after an entry's variable fields (the loop's "offset +=").
NextOffset(offset, e) ==
    offset + CDFH_FIXED_SIZE + e.file_name_length + e.extra_field_length
           + e.file_comment_length

\* One iteration of parse_central_directory's loop at `offset`:
\* Ok([entry, offset]) or the exception the iteration raises.
ParseOne(data, offset) ==
    IF Slice(data, offset, offset + 4) # CENTRAL_DIRECTORY_HEADER_SIGNATURE
    THEN Raise("Invalid central directory file header signature")
    ELSE
      LET h == CentralDirectoryFileHeaderUnpack(
                   Slice(data, offset, offset + CDFH_FIXED_SIZE), << >>, << >>, << >>)
      IN  IF ~h.ok THEN h
          ELSE
            LET e  == h.val
                n0 == offset + CDFH_FIXED_SIZE
                n1 == n0 + e.file_name_length
                n2 == n1 + e.extra_field_length
                n3 == n2 + e.file_comment_length
                name == Utf8Decode(Slice(data, n0, n1))
                comment == Utf8Decode(Slice(data, n2, n3))
            IN  IF ~name.ok THEN name
                ELSE IF ~comment.ok THEN comment
                ELSE Ok([entry |-> [e EXCEPT !.file_name = name.val,
                                             !.extra_field = Slice(data, n1, n2),
                                             !.file_comment = comment.val],
                         offset |-> NextOffset(offset, e)])

RECURSIVE ParseFrom(_, _, _)
ParseFrom(data, offset, entries) ==
    IF ~(offset < Len(data)) THEN Ok(entries)
    ELSE LET r == ParseOne(data, offset)
         IN  IF ~r.ok THEN r
             ELSE ParseFrom(data, r.val.offset, Append(entries, r.val.entry))

parse_central_directory(central_directory_data) ==
    ParseFrom(central_directory_data, 0, << >>)

(***************************************************************************)
(* INNER_ZIP_PATTERN.match(name) for r".*image.*\.zip" with re.IGNORECASE: *)
(* match() anchors at the start only, "." is any character but newline.    *)
(* Names are sequences of code points; case folding is ASCII's.            *)
(***************************************************************************)
Lower(c) == IF c >= 65 /\ c <= 90 THEN c + 32 ELSE c

HasAt(name, i, word) ==
    /\ i + Len(word) - 1 <= Len(name)
    /\ \A k \in 1..Len(word) : Lower(name[i + k - 1]) = word[k]

INNER_ZIP_PATTERN_match(name) ==
    \E i \in 1..Len(name) : \E j \in 1..Len(name) :
        /\ HasAt(name, i, << 105, 109, 97, 103, 101 >>)
        /\ j >= i + 5
        /\ HasAt(name, j, << 46, 122, 105, 112 >>)
        /\ \A k \in 1..(j - 1) : name[k] # 10

\* The for/else of main.py 166-174 and 230-236 over the entries' match
\* results: the index at which the loop breaks, scanning in list order;
\* 0 when the loop runs to its else branch.
RECURSIVE FirstIndex(_, _)
FirstIndex(matches, i) ==
    IF i > Len(matches) THEN 0
    ELSE IF matches[i] THEN i
    ELSE FirstIndex(matches, i + 1)

\* The loop without its break: the last matching index.
RECURSIVE LastIndex(_, _)
LastIndex(matches, i) ==
    IF i < 1 THEN 0
    ELSE IF matches[i] THEN i
    ELSE LastIndex(matches, i - 1)

IsBootImg(name) == name = << 98, 111, 111, 116, 46, 105, 109, 103 >>

SelectLastImageZip(entries) ==
    LastIndex([i \in 1..Len(entries) |-> INNER_ZIP_PATTERN_match(entries[i].file_name)],
              Len(entries))

SelectImageZip(entries) ==
    FirstIndex([i \in 1..Len(entries) |-> INNER_ZIP_PATTERN_match(entries[i].file_name)], 1)

SelectBootImg(nested_entries) ==
    FirstIndex([i \in 1..Len(nested_entries) |-> IsBootImg(nested_entries[i].file_name)], 1)

(***************************************************************************)
(* zlib.decompress(data, wbits=-zlib.MAX_WBITS): a raw deflate stream.     *)
(* Stored blocks (BTYPE 00) are decoded, BTYPE 11 is invalid; the archives *)
(* built below hold no Huffman block (HuffmanFree is checked).  Bytes      *)
(* after the final block are ignored, as zlib.decompress ignores them.     *)
(***************************************************************************)
RECURSIVE InflateFrom(_, _, _)
InflateFrom(d, i, acc) ==
    IF i >= Len(d) THEN Raise("zlib.error")
    ELSE
      LET hdr == d[i + 1]
          btype == (hdr \div 2) % 4
      IN  IF btype = 1 \/ btype = 2 THEN Raise("huffman")
          ELSE IF btype = 3 THEN Raise("zlib.error")
          ELSE IF i + 5 > Len(d) THEN Raise("zlib.error")
          ELSE
            LET len == U16(d, i + 1)
                nlen == U16(d, i + 3)
            IN  IF len + nlen # 65535 THEN Raise("zlib.error")
                ELSE IF i + 5 + len > Len(d) THEN Raise("zlib.error")
                ELSE IF hdr % 2 = 1 THEN Ok(acc \o Slice(d, i + 5, i + 5 + len))
                ELSE InflateFrom(d, i + 5 + len, acc \o Slice(d, i + 5, i + 5 + len))

zlib_decompress(d) == InflateFrom(d, 0, << >>)

(***************************************************************************)
(* The remote object: ZIP archives as a writer lays them out, byte for     *)
(* byte in the layouts that LocalFileHeader.unpack, CentralDirectory-      *)
(* FileHeader.unpack and parse_eocd read.  A member is a record            *)
(*   name, lextra, cextra, comment : bytes (local / central extra field)   *)
(*   method, payload, usize, crc   : as declared in both headers           *)
(*   cd_csize_delta                : central compressed_size - local one   *)
(***************************************************************************)
MaxData == 2
MaxExtra == 2
BigPad == 4000

Zeros(n) == [i \in 1..n |-> 0]

LfhBytes(m) ==
    << 80, 75, 3, 4 >> \o P16(20) \o P16(0) \o P16(m.method) \o P16(0) \o P16(0)
    \o P32Halves(m.crc) \o P32(Len(m.payload)) \o P32(m.usize)
    \o P16(Len(m.name)) \o P16(Len(m.lextra)) \o m.name \o m.lextra

CdfhBytes(m, offset) ==
    CENTRAL_DIRECTORY_HEADER_SIGNATURE \o P16(20) \o P16(20) \o P16(0) \o P16(m.method)
    \o P16(0) \o P16(0) \o P32Halves(m.crc)
    \o P32(Len(m.payload) + m.cd_csize_delta) \o P32(m.usize)
    \o P16(Len(m.name)) \o P16(Len(m.cextra)) \o P16(Len(m.comment))
    \o P16(0) \o P16(0) \o P32(0) \o P32(offset)
    \o m.name \o m.cextra \o m.comment

EocdBytes(n, cd_size, cd_offset, comment) ==
    EOCD_SIGNATURE \o P16(0) \o P16(0) \o P16(n) \o P16(n)
    \o P32(cd_size) \o P32(cd_offset) \o P16(Len(comment)) \o comment

RECURSIVE LocalPart(_, _, _)
LocalPart(ms, i, acc) ==
    IF i > Len(ms) THEN acc
    ELSE LocalPart(ms, i + 1,
                   [bytes |-> acc.bytes \o LfhBytes(ms[i]) \o ms[i].payload,
                    offs  |-> Append(acc.offs, Len(acc.bytes))])

RECURSIVE CdPart(_, _, _)
CdPart(ms, offs, i) ==
    IF i > Len(ms) THEN << >> ELSE CdfhBytes(ms[i], offs[i]) \o CdPart(ms, offs, i + 1)

ZipBytes(ms, comment) ==
    LET loc == LocalPart(ms, 1, [bytes |-> << >>, offs |-> << >>])
        cd  == CdPart(ms, loc.offs, 1)
    IN  loc.bytes \o cd \o EocdBytes(Len(ms), Len(cd), Len(loc.bytes), comment)

\* A raw deflate stream of one final stored block.
DeflateStored(data) == << 1 >> \o P16(Len(data)) \o P16(65535 - Len(data)) \o data

BootName  == << 98, 111, 111, 116, 46, 105, 109, 103 >>       \* boot.img
OtherName == << 98, 46, 105, 109, 103 >>                      \* b.img
ImageName == << 105, 109, 97, 103, 101, 46, 122, 105, 112 >>  \* image.zip
UpperName == << 120, 47, 73, 77, 65, 71, 69, 46, 90, 73, 80, 46, 49 >> \* x/IMAGE.ZIP.1
PlainName == << 105, 109, 103, 46, 122, 105, 112 >>           \* img.zip
PadName   == << 97, 46, 116, 120, 116 >>                      \* a.txt

Datas == { [i \in 1..n |-> 64 + i] : n \in 0..MaxData }
Extras == { Zeros(0), Zeros(MaxExtra) }

Leaf(name, method, data, lextra, crc_delta, usize_delta) ==
    [name |-> name, method |-> method,
     payload |-> IF method = 8 THEN DeflateStored(data) ELSE data,
     usize |-> Len(data) + usize_delta,
     crc |-> LET c == Crc32(data) IN << c[1], Xor(c[2], crc_delta) >>,
     lextra |-> lextra, cextra |-> << >>, comment |-> << >>, cd_csize_delta |-> 0]

Leaf0 == Leaf(BootName, 8, << 65, 66 >>, << >>, 0, 0)
Leaf1 == Leaf(BootName, 8, << 67 >>, << >>, 0, 0)
LeafB == Leaf(OtherName, 0, << 68 >>, << >>, 0, 0)

BootLeaves ==
    { Leaf(BootName, m, d, lx, cd, 0) :
        m \in {0, 8, 9}, d \in Datas, lx \in Extras, cd \in {0, 1} }
    \cup { Leaf(BootName, 0, d, << >>, 0, 1) : d \in Datas }

InnerMembers ==
    { << l >> : l \in BootLeaves }
    \cup { << LeafB, Leaf0 >>, << LeafB >>, << Leaf0, Leaf1 >>, << >> }

Stored(name, payload, lextra, delta) ==
    [name |-> name, method |-> 0, payload |-> payload, usize |-> Len(payload),
     crc |-> << 0, 0 >>, lextra |-> lextra, cextra |-> << >>, comment |-> << >>,
     cd_csize_delta |-> delta]

\* Padding ahead of the nested archive; `spurious` plants the EOCD magic in it.
PadFile(spurious) ==
    Stored(PadName, (IF spurious THEN EOCD_SIGNATURE ELSE Zeros(4)) \o Zeros(BigPad), << >>, 0)

Inner0 == ZipBytes(<< Leaf0 >>, << >>)
Inner1 == ZipBytes(<< Leaf1 >>, << >>)

OuterMembers ==
    \* every nested archive, behind padding
    { << PadFile(FALSE), Stored(ImageName, ZipBytes(ms, << >>), lx, 0) >> :
         ms \in InnerMembers, lx \in Extras }
    \* central and local compressed_size of the nested archive disagree
    \cup { << PadFile(sp), Stored(ImageName, Inner0, lx, d) >> :
             sp \in BOOLEAN, lx \in Extras, d \in {0, 1} }
    \* no padding: the nested archive ends before offset 4096
    \cup { << Stored(ImageName, Inner0, lx, 0) >> : lx \in Extras }
    \* several candidates, or none
    \cup { << PadFile(FALSE), Stored(PlainName, Inner1, << >>, 0),
              Stored(UpperName, Inner0, << >>, 0), Stored(ImageName, Inner1, << >>, 0) >>,
           << PadFile(FALSE), Stored(PlainName, Inner0, << >>, 0) >> }

Remotes == { ZipBytes(ms, << >>) : ms \in OuterMembers }

(***************************************************************************)
(* State.  remote .. output belong to main(url); buf, eocd_result to the   *)
(* find_eocd runs; cd_input .. cd_error to the parse_central_directory     *)
(* runs.                                                                   *)
(***************************************************************************)
VARIABLES
    remote,      \* the bytes of the object behind url
    pc,          \* main's position: the next range request, or "done"
    requests,    \* the Range headers sent so far, as <<start_byte, end_byte>>
    err,         \* the exception the except clause printed, "" if none
    frame,       \* main's local variables, by their names
    output,      \* the files written by path.write_bytes
    buf,         \* find_eocd's argument
    eocd_result, \* find_eocd's outcome on buf, << >> before the call
    cd_input,    \* the entries encoded into cd_data, and where it was cut
    cd_data,     \* parse_central_directory's argument
    cd_offset,   \* its loop variable offset
    cd_entries,  \* its list entries
    cd_state     \* "loop", "returned", or the exception raised

mainVars == << remote, pc, requests, err, frame, output >>
eocdVars == << buf, eocd_result >>
cdVars == << cd_input, cd_data, cd_offset, cd_entries, cd_state >>
vars == << mainVars, eocdVars, cdVars >>

TAIL_WINDOW == 65536
INNER_TAIL_WINDOW == 4096

NoEntry ==
    [signature |-> << >>, compression_method |-> 0, crc32 |-> << 0, 0 >>,
     compressed_size |-> 0, uncompressed_size |-> 0, file_name_length |-> 0,
     extra_field_length |-> 0, file_comment_length |-> 0, offset |-> 0,
     file_name |-> << >>, extra_field |-> << >>, file_comment |-> << >>]

InitFrame ==
    [content_length |-> 0, central_directory_offset |-> 0, central_directory_size |-> 0,
     entries |-> << >>, image_zip |-> NoEntry, local_file_header_size |-> 0,
     end_of_image_zip |-> 0, nested_entries |-> << >>, boot_img |-> NoEntry,
     boot_data_start |-> 0, compressed_data |-> << >>, decompressed_data |-> << >>]

\* The remote's answer to "Range: bytes=start-end": 206 with the bytes that
\* exist when the range is satisfiable, no partial content otherwise.
Satisfiable(start_byte, end_byte) ==
    0 <= start_byte /\ start_byte <= end_byte /\ start_byte < Len(remote)

\* RemoteFileFetcher.fetch_range; `up` is whether the transport delivers.
fetch_range(start_byte, end_byte, up) ==
    IF up /\ Satisfiable(start_byte, end_byte)
    THEN Ok(Slice(remote, start_byte, end_byte + 1))
    ELSE Raise("Failed to fetch byte range")

\* The except clause of main: the exception is printed and main returns.
Abort(e) == pc' = "done" /\ err' = e /\ UNCHANGED << frame, output >>

\* find_eocd, the slice of EOCD_SIZE bytes and parse_eocd (147-153, 201-209).
LocateEocd(window) ==
    LET eocd_offset == find_eocd(window)
    IN  IF ~eocd_offset.ok THEN eocd_offset
        ELSE parse_eocd(Slice(window, eocd_offset.val, eocd_offset.val + EOCD_SIZE))

\* main.py 144-153: fetch_last_n_bytes(url, 65536), then the outer EOCD.
FetchOuterTail ==
    /\ pc = "start"
    /\ \E head_ok \in BOOLEAN, up \in BOOLEAN :
         IF ~head_ok
         THEN Abort("Failed to retrieve content length") /\ UNCHANGED requests
         ELSE
           LET content_length == Len(remote)
               start_byte == Max2(0, content_length - TAIL_WINDOW)
               got == fetch_range(start_byte, content_length - 1, up)
               eocd_info == LocateEocd(got.val)
           IN  /\ requests' = Append(requests, << start_byte, content_length - 1 >>)
               /\ IF ~got.ok THEN Abort("Failed to fetch the last n bytes")
                  ELSE IF ~eocd_info.ok THEN Abort(eocd_info.err)
                  ELSE /\ frame' = [frame EXCEPT
                              !.content_length = content_length,
                              !.central_directory_offset = eocd_info.val.central_directory_offset,
                              !.central_directory_size = eocd_info.val.central_directory_size]
                       /\ pc' = "outer_cd"
                       /\ UNCHANGED << err, output >>
    /\ UNCHANGED << remote, eocdVars, cdVars >>

\* main.py 155-174: the outer central directory and the image zip in it.
FetchOuterCD ==
    /\ pc = "outer_cd"
    /\ \E up \in BOOLEAN :
         LET first == frame.central_directory_offset
             last == frame.central_directory_offset + frame.central_directory_size - 1
             got == fetch_range(first, last, up)
             entries == parse_central_directory(got.val)
             found == SelectImageZip(entries.val)
         IN  /\ requests' = Append(requests, << first, last >>)
             /\ IF ~got.ok THEN Abort(got.err)
                ELSE IF ~entries.ok THEN Abort(entries.err)
                ELSE IF found = 0 THEN Abort("No image zip found")
                ELSE /\ frame' = [frame EXCEPT !.entries = entries.val,
                                               !.image_zip = entries.val[found]]
                     /\ pc' = "local_header"
                     /\ UNCHANGED << err, output >>
    /\ UNCHANGED << remote, eocdVars, cdVars >>

\* The assertion left out.
SizesUnchecked(image_zip, image_file_header) == TRUE

\* main.py 190: assert image_zip.compressed_size == image_file_header.compressed_size
SizesAgree(image_zip, image_file_header) ==
    image_zip.compressed_size = image_file_header.compressed_size

\* main.py 176-194: the image zip's local file header.
FetchLocalHeader ==
    /\ pc = "local_header"
    /\ \E up \in BOOLEAN :
         LET image_zip == frame.image_zip
             got == fetch_range(image_zip.offset, image_zip.offset + 30 - 1, up)
             header == LocalFileHeaderUnpack(got.val)
             local_file_header_size ==
                 LFH_FIXED_SIZE + header.val.extra_field_length + header.val.file_name_length
         IN  /\ requests' = Append(requests, << image_zip.offset, image_zip.offset + 30 - 1 >>)
             /\ IF ~got.ok THEN Abort(got.err)
                ELSE IF ~header.ok THEN Abort(header.err)
                ELSE IF ~SizesAgree(image_zip, header.val) THEN Abort("AssertionError")
                ELSE /\ frame' = [frame EXCEPT
                            !.local_file_header_size = local_file_header_size,
                            !.end_of_image_zip =
                                image_zip.offset + local_file_header_size
                                + image_zip.compressed_size]
                     /\ pc' = "inner_tail"
                     /\ UNCHANGED << err, output >>
    /\ UNCHANGED << remote, eocdVars, cdVars >>

\* main.py 196-209: the last 4096 bytes of the image zip, then its EOCD.
FetchInnerTail ==
    /\ pc = "inner_tail"
    /\ \E up \in BOOLEAN :
         LET first == frame.end_of_image_zip - INNER_TAIL_WINDOW
             last == frame.end_of_image_zip - 1
             got == fetch_range(first, last, up)
             eocd_info == LocateEocd(got.val)
         IN  /\ requests' = Append(requests, << first, last >>)
             /\ IF ~got.ok THEN Abort(got.err)
                ELSE IF ~eocd_info.ok THEN Abort(eocd_info.err)
                ELSE /\ frame' = [frame EXCEPT
                            !.central_directory_offset = eocd_info.val.central_directory_offset,
                            !.central_directory_size = eocd_info.val.central_directory_size]
                     /\ pc' = "inner_cd"
                     /\ UNCHANGED << err, output >>
    /\ UNCHANGED << remote, eocdVars, cdVars >>

\* The inner offset translated by the entry's offset alone.
AbsoluteOffsetWithoutHeader(image_zip, central_directory_offset, local_file_header_size) ==
    image_zip.offset + central_directory_offset

\* main.py 214-216
AbsoluteCentralDirectoryOffset(image_zip, central_directory_offset, local_file_header_size) ==
    image_zip.offset + central_directory_offset + local_file_header_size

\* main.py 214-236: the image zip's central directory and boot.img in it.
FetchInnerCD ==
    /\ pc = "inner_cd"
    /\ \E up \in BOOLEAN :
         LET first == AbsoluteCentralDirectoryOffset(
                          frame.image_zip, frame.central_directory_offset,
                          frame.local_file_header_size)
             last == first + frame.central_directory_size - 1
             got == fetch_range(first, last, up)
             nested_entries == parse_central_directory(got.val)
             found == SelectBootImg(nested_entries.val)
         IN  /\ requests' = Append(requests, << first, last >>)
             /\ IF ~got.ok THEN Abort(got.err)
                ELSE IF ~nested_entries.ok THEN Abort(nested_entries.err)
                ELSE IF found = 0 THEN Abort("Boot image not found in nested zip")
                ELSE /\ frame' = [frame EXCEPT !.nested_entries = nested_entries.val,
                                               !.boot_img = nested_entries.val[found]]
                     /\ pc' = "payload"
                     /\ UNCHANGED << err, output >>
    /\ UNCHANGED << remote, eocdVars, cdVars >>

\* main.py 239-246
BootDataStart(image_zip, local_file_header_size, boot_img) ==
    image_zip.offset + local_file_header_size + boot_img.offset + LFH_FIXED_SIZE
    + boot_img.file_name_length + boot_img.extra_field_length

\* main.py 247
BootDataStop(boot_data_start, boot_img) == boot_data_start + boot_img.compressed_size

\* main.py 239-248: the range of boot.img's data.
FetchPayload ==
    /\ pc = "payload"
    /\ \E up \in BOOLEAN :
         LET boot_data_start ==
                 BootDataStart(frame.image_zip, frame.local_file_header_size, frame.boot_img)
             boot_data_stop == BootDataStop(boot_data_start, frame.boot_img)
             got == fetch_range(boot_data_start, boot_data_stop, up)
         IN  /\ requests' = Append(requests, << boot_data_start, boot_data_stop >>)
             /\ IF ~got.ok THEN Abort(got.err)
                ELSE /\ frame' = [frame EXCEPT !.boot_data_start = boot_data_start,
                                               !.compressed_data = got.val]
                     /\ pc' = "verify"
                     /\ UNCHANGED << err, output >>
    /\ UNCHANGED << remote, eocdVars, cdVars >>

\* main.py 249-255
Decompress(boot_img, compressed_data) ==
    IF boot_img.compression_method = 0
    THEN IF boot_img.compressed_size = boot_img.uncompressed_size
         THEN Ok(compressed_data) ELSE Raise("AssertionError")
    ELSE IF boot_img.compression_method = 8 THEN zlib_decompress(compressed_data)
    ELSE Raise("NotImplementedError")

\* No comparison of the CRC32.
CrcUnchecked(decompressed_data, boot_img) == TRUE

\* main.py 257-258: computed_crc32 != boot_img.crc32 raises ValueError.
CrcMatches(decompressed_data, boot_img) == Crc32(decompressed_data) = boot_img.crc32

\* main.py 249-259: decompression and the CRC32 comparison.
Verify ==
    /\ pc = "verify"
    /\ LET data == Decompress(frame.boot_img, frame.compressed_data)
       IN  IF ~data.ok THEN Abort(data.err)
           ELSE IF ~CrcMatches(data.val, frame.boot_img) THEN Abort("ValueError")
           ELSE /\ frame' = [frame EXCEPT !.decompressed_data = data.val]
                /\ pc' = "write"
                /\ UNCHANGED << err, output >>
    /\ UNCHANGED << remote, requests, eocdVars, cdVars >>

\* main.py 262-264: mkdir(exist_ok=True) may raise; then write_bytes.
Write ==
    /\ pc = "write"
    /\ \E mkdir_ok \in BOOLEAN :
         IF ~mkdir_ok THEN Abort("mkdir failed")
         ELSE /\ output' = Append(output, [name |-> frame.boot_img.file_name,
                                           data |-> frame.decompressed_data])
              /\ pc' = "done"
              /\ UNCHANGED << err, frame >>
    /\ UNCHANGED << remote, requests, eocdVars, cdVars >>

NotCalled == [called |-> FALSE, ok |-> FALSE, val |-> 0, err |-> ""]

IdleMain ==
    /\ remote = << >> /\ pc = "done" /\ requests = << >> /\ err = ""
    /\ frame = InitFrame /\ output = << >>
IdleEocd == buf = << >> /\ eocd_result = NotCalled
IdleCD ==
    /\ cd_input = [members |-> << >>, cut |-> 0] /\ cd_data = << >> /\ cd_offset = 0
    /\ cd_entries = << >> /\ cd_state = "returned"

Init ==
    /\ remote \in Remotes
    /\ pc = "start"
    /\ requests = << >>
    /\ err = ""
    /\ frame = InitFrame
    /\ output = << >>
    /\ IdleEocd
    /\ IdleCD

Next ==
    \/ FetchOuterTail
    \/ FetchOuterCD
    \/ FetchLocalHeader
    \/ FetchInnerTail
    \/ FetchInnerCD
    \/ FetchPayload
    \/ Verify
    \/ Write

Spec == Init /\ [][Next]_vars

\* The archives built above stay inside the stored-block subset of deflate.
HuffmanFree == err # "huffman"

(***************************************************************************)
(* SpecEocd: find_eocd on every buffer of at most MaxBuf bytes over the    *)
(* bytes of the EOCD magic.                                                *)
(***************************************************************************)
MaxBuf == 8

Extend ==
    /\ ~eocd_result.called
    /\ Len(buf) < MaxBuf
    /\ \E b \in {80, 75, 5, 6} : buf' = Append(buf, b)
    /\ UNCHANGED << eocd_result, mainVars, cdVars >>

Locate ==
    /\ ~eocd_result.called
    /\ LET r == find_eocd(buf)
       IN  eocd_result' = [called |-> TRUE, ok |-> r.ok,
                           val |-> IF r.ok THEN r.val ELSE -1, err |-> r.err]
    /\ UNCHANGED << buf, mainVars, cdVars >>

InitEocd == IdleMain /\ IdleCD /\ IdleEocd
NextEocd == Extend \/ Locate
SpecEocd == InitEocd /\ [][NextEocd]_vars

(***************************************************************************)
(* SpecCD: parse_central_directory on the concatenation of at most         *)
(* MaxEntries encoded entries, whole or cut after any number of bytes;     *)
(* one action per iteration of its while loop.                             *)
(***************************************************************************)
MaxEntries == 2

CdMember(name, cextra, comment) ==
    [name |-> name, method |-> 0, payload |-> << >>, usize |-> 0, crc |-> << 0, 0 >>,
     lextra |-> << >>, cextra |-> cextra, comment |-> comment, cd_csize_delta |-> 0]

CdMembers ==
    { CdMember(<< 97 >>, << >>, << >>),                         \* "a"
      CdMember(<< 195, 169 >>, Zeros(MaxExtra), << >>),          \* "e-acute", in two bytes
      CdMember(<< 97 >>, << >>, << 99 >>),                       \* comment "c"
      CdMember(OtherName, Zeros(MaxExtra), << 195, 169 >>) }

CdInputs ==
    UNION { [1..n -> CdMembers] : n \in 0..MaxEntries }

InitCD ==
    /\ IdleMain /\ IdleEocd
    /\ \E ms \in CdInputs :
         LET whole == CdPart(ms, [i \in 1..Len(ms) |-> 0], 1)
         IN  \E cut \in 0..Len(whole) :
               /\ cd_input = [members |-> ms, cut |-> cut]
               /\ cd_data = Slice(whole, 0, cut)
    /\ cd_offset = 0
    /\ cd_entries = << >>
    /\ cd_state = "loop"

\* main.py 79-132: one pass through the body of the while loop.
ParseIteration ==
    /\ cd_state = "loop"
    /\ cd_offset < Len(cd_data)
    /\ LET r == ParseOne(cd_data, cd_offset)
       IN  IF ~r.ok
           THEN cd_state' = r.err /\ UNCHANGED << cd_offset, cd_entries >>
           ELSE /\ cd_entries' = Append(cd_entries, r.val.entry)
                /\ cd_offset' = r.val.offset
                /\ UNCHANGED cd_state
    /\ UNCHANGED << cd_input, cd_data, mainVars, eocdVars >>

\* main.py 79, 134: the loop condition fails and entries is returned.
ParseReturn ==
    /\ cd_state = "loop"
    /\ ~(cd_offset < Len(cd_data))
    /\ cd_state' = "returned"
    /\ UNCHANGED << cd_input, cd_data, cd_offset, cd_entries, mainVars, eocdVars >>

NextCD == ParseIteration \/ ParseReturn
SpecCD == InitCD /\ [][NextCD]_vars

(***************************************************************************)
(* The properties.  What they say about the object is read from the bytes  *)
(* of remote (or from cd_input), not from what main computed.              *)
(***************************************************************************)

\* The first byte of the image zip's data: its local file header's offset,
\* the 30 fixed bytes, and the name and extra lengths stored in that header.
InnerBase ==
    frame.image_zip.offset + 30
    + U16(remote, frame.image_zip.offset + 26) + U16(remote, frame.image_zip.offset + 28)

\* The image zip's EOCD record (the nested archives carry no comment), and
\* the central directory size and offset stored in it.
InnerEocdAt == InnerBase + frame.image_zip.compressed_size - EOCD_SIZE
InnerCdSize == U32(remote, InnerEocdAt + 12)
InnerCdOffset == U32(remote, InnerEocdAt + 16)

\* C1: once the request for the inner central directory is sent (the fifth
\* request), it is for exactly central_directory_size bytes at
\* inner_archive_base + inner central_directory_offset, the base being
\* offset + 30 + the local header's name and extra lengths; the inner tail
\* window ends at the base + compressed_size; the untranslated offset is
\* never requested.
C1_InnerDirectoryTranslated ==
    Len(requests) >= 5 =>
        /\ requests[4][2] = InnerBase + frame.image_zip.compressed_size - 1
        /\ requests[5] = << InnerBase + InnerCdOffset,
                            InnerBase + InnerCdOffset + InnerCdSize - 1 >>
        /\ requests[5][1] # InnerCdOffset

C1_Witness ==
    /\ Len(requests) >= 5
    /\ pc = "payload"
    /\ U16(remote, frame.image_zip.offset + 28) > 0

\* C2: the request for boot.img's data (the sixth request) starts at
\* inner_archive_base + boot_img.offset + 30 + the name and extra lengths
\* stored in boot.img's own local file header.
C2_LeafStartFromLocalHeader ==
    Len(requests) >= 6 =>
        LET header == InnerBase + frame.boot_img.offset
        IN  requests[6][1] = header + 30 + U16(remote, header + 26) + U16(remote, header + 28)

\* C3: the bytes fetched for boot.img and handed to verification are exactly
\* compressed_size bytes, and for a stored boot.img exactly uncompressed_size.
C3_PayloadExactlyCompressedSize ==
    pc = "verify" =>
        /\ requests[6][2] - requests[6][1] + 1 = frame.boot_img.compressed_size
        /\ Len(frame.compressed_data) = frame.boot_img.compressed_size
        /\ frame.boot_img.compression_method = 0 =>
               Len(frame.compressed_data) = frame.boot_img.uncompressed_size

\* C4: a file is written only after its content's CRC32 was found equal to
\* the CRC32 declared for boot.img in the inner central directory, at most
\* once, and a run that ended in an error wrote nothing.
C4_WriteOnlyAfterCrc ==
    /\ pc = "write" => Crc32(frame.decompressed_data) = frame.boot_img.crc32
    /\ output # << >> =>
           /\ Len(output) = 1
           /\ pc = "done" /\ err = ""
           /\ Crc32(output[1].data) = frame.boot_img.crc32
    /\ err # "" => output = << >> /\ pc = "done"

C4_Witness == output # << >> /\ Len(output[1].data) > 0

\* C5: when the image zip's central compressed_size differs from the one in
\* its local file header, the local-header request (the third) is the last
\* one: main ends with the assertion's error and nothing written.
C5_SizeMismatchStops ==
    ( /\ Len(requests) >= 3
      /\ U32(remote, frame.image_zip.offset + 18) # frame.image_zip.compressed_size )
    => /\ Len(requests) = 3
       /\ pc = "done"
       /\ err \in {"AssertionError", "Failed to fetch byte range"}
       /\ output = << >>

C5_Witness ==
    /\ Len(requests) = 3
    /\ U32(remote, frame.image_zip.offset + 18) # frame.image_zip.compressed_size
    /\ err = "AssertionError"

Utf8Encode(cps) ==
    LET enc(c) == IF c < 128 THEN << c >> ELSE << 192 + (c \div 64), 128 + (c % 64) >>
        RECURSIVE go(_)
        go(i) == IF i > Len(cps) THEN << >> ELSE enc(cps[i]) \o go(i + 1)
    IN  go(1)

\* The bytes taken by the first k encoded entries of cd_input.
RECURSIVE EntrySpan(_, _)
EntrySpan(ms, k) ==
    IF k = 0 THEN 0
    ELSE EntrySpan(ms, k - 1) + CDFH_FIXED_SIZE + Len(ms[k].name) + Len(ms[k].cextra)
         + Len(ms[k].comment)

Uncut == cd_input.cut = EntrySpan(cd_input.members, Len(cd_input.members))

\* C6: parse_central_directory raises whenever the buffer ends inside an
\* entry, and no entry it holds has a name, extra field or comment shorter
\* than its fixed header declares.
C6_TruncationRejected ==
    /\ cd_state = "returned" =>
           \E k \in 0..Len(cd_input.members) : cd_input.cut = EntrySpan(cd_input.members, k)
    /\ \A i \in 1..Len(cd_entries) :
           /\ Len(Utf8Encode(cd_entries[i].file_name)) = cd_entries[i].file_name_length
           /\ Len(cd_entries[i].extra_field) = cd_entries[i].extra_field_length
           /\ Len(Utf8Encode(cd_entries[i].file_comment)) = cd_entries[i].file_comment_length

Utf8Len(cps) == Len(Utf8Encode(cps))

\* What C7 says of a whole buffer, names and comments measured in encoded
\* bytes (in_bytes) or in decoded characters.
ValidEntriesParsed(in_bytes) ==
    LET NameLen(text) == IF in_bytes THEN Utf8Len(text) ELSE Len(text)
    IN
    Uncut =>
        /\ cd_state \in {"loop", "returned"}
        /\ Len(cd_entries) <= Len(cd_input.members)
        /\ cd_state = "returned" => Len(cd_entries) = Len(cd_input.members)
        /\ cd_offset = EntrySpan(cd_input.members, Len(cd_entries))
        /\ \A i \in 1..Len(cd_entries) :
             LET e == cd_entries[i]
                 m == cd_input.members[i]
             IN  /\ Utf8Encode(e.file_name) = m.name
                 /\ e.extra_field = m.cextra
                 /\ Utf8Encode(e.file_comment) = m.comment
                 /\ NameLen(e.file_name) = e.file_name_length
                 /\ Len(e.extra_field) = e.extra_field_length
                 /\ NameLen(e.file_comment) = e.file_comment_length

\* C7, as stated: on N valid entries the parser returns the N entries in
\* buffer order, the scan offset advancing by 46 + the three declared lengths
\* per entry, and the lengths of each decoded name, extra field and comment
\* equal the declared lengths.
C7_DecodedLengthsMatch == ValidEntriesParsed(FALSE)

\* C7, amended: the same, the name and the comment measured in the bytes of
\* their UTF-8 encoding (the declared lengths count bytes, the decoded
\* strings count characters).
C7_EncodedLengthsMatch == ValidEntriesParsed(TRUE)

C7_Witness ==
    /\ Uncut /\ cd_state = "returned" /\ Len(cd_entries) >= 2
    /\ \E i \in 1..Len(cd_entries) : cd_entries[i].file_name = << 233 >>
    /\ \E i \in 1..Len(cd_entries) : cd_entries[i].file_comment_length > 0

Occurrences == { i \in 0..(Len(buf) - 4) : Slice(buf, i, i + 4) = EOCD_SIGNATURE }

\* C8: find_eocd returns an offset at which the EOCD magic stands and after
\* which it stands nowhere, and raises "EOCD signature not found." exactly
\* when the buffer holds no occurrence.
C8_LastOccurrence ==
    eocd_result.called =>
        IF Occurrences = {}
        THEN ~eocd_result.ok /\ eocd_result.err = "EOCD signature not found."
        ELSE /\ eocd_result.ok
             /\ eocd_result.val \in Occurrences
             /\ \A i \in Occurrences : i <= eocd_result.val

C8_Witness ==
    /\ eocd_result.called /\ eocd_result.ok
    /\ \E i \in Occurrences : i < eocd_result.val

\* The outer central directory, found through the EOCD record that ends the
\* object (the archives carry no comment); the inner one likewise.
OuterEocdAt == Len(remote) - EOCD_SIZE
OuterCd ==
    parse_central_directory(
        Slice(remote, U32(remote, OuterEocdAt + 16),
              U32(remote, OuterEocdAt + 16) + U32(remote, OuterEocdAt + 12)))

InnerCd ==
    parse_central_directory(
        Slice(remote, InnerBase + InnerCdOffset, InnerBase + InnerCdOffset + InnerCdSize))

C10_RangesInsideObject ==
    \A k \in 1..Len(requests) :
        0 <= requests[k][1] /\ requests[k][1] <= requests[k][2]
        /\ requests[k][2] < Len(remote)

====
